---- MODULE Spec2Model ----
(***************************************************************************)
(* Model of src/main.py, the entry point of the PDQ Scraper.               *)
(*                                                                         *)
(* The module body is executed statement by statement (basicConfig,        *)
(* getLogger, def main, the __main__ guard).  main() is executed           *)
(* statement by statement as well: logger.info, the TODO, logger.info,     *)
(* return.  The state of the logging package that the program reads and    *)
(* writes is the root logger (its level and its handlers); the sink is     *)
(* the sequence of lines the handlers have written.                        *)
(*                                                                         *)
(* The file is either run directly (its name is "__main__", the root       *)
(* logger is in its default state) or imported by another program, which   *)
(* may have configured the root logger before, and which may call main()   *)
(* and reload the module afterwards.                                       *)
(***************************************************************************)
EXTENDS Integers, Sequences, FiniteSets, TLC

VARIABLES
    name,         \* __name__ of the module, fixed when the process starts
    pre,          \* the root logger as it was before the module was loaded
    phase,        \* "loading", "loaded" (import finished), "exited"
    pc,           \* index into TopLevel of the next statement of the module
    root,         \* the root logger: [level, handlers]
    logger,       \* name of the module's logger; "" while unbound
    mainDefined,  \* TRUE once "def main" has been executed
    mpc,          \* position inside main(): "idle" when no call is active
    caller,       \* who made the active call of main(): "guard", "importer"
    mark,         \* Len(records) when the active call of main() was entered
    records,      \* the LogRecords created so far, in order
    sink,         \* the lines written by the handlers so far, in order
    clock,        \* time as read by the LogRecord constructor
    calls,        \* number of calls of main() made so far
    guardCalls,   \* number of those made by the __main__ guard
    infoCalls,    \* number of logger.info calls executed so far
    configCalls,  \* number of executions of logging.basicConfig
    loads,        \* number of reloads of the module by the importer
    raised,       \* TRUE when an exception is propagating
    exitStatus    \* exit status of the process, -1 while it runs

vars == <<name, pre, phase, pc, root, logger, mainDefined, mpc, caller, mark,
          records, sink, clock, calls, guardCalls, infoCalls, configCalls,
          loads, raised, exitStatus>>

----------------------------------------------------------------------------
(* Bounds of the model.                                                    *)

MaxCalls == 2      \* calls of main() made by an importer
MaxReloads == 1    \* reloads of the module by an importer
MaxPre == 2        \* handlers on the root logger before the module loads

----------------------------------------------------------------------------
(* Levels of the logging package.                                          *)

NOTSET == 0
DEBUG == 10
INFO == 20
WARNING == 30

LevelName(l) ==
    CASE l = DEBUG -> "DEBUG"
      [] l = INFO -> "INFO"
      [] l = WARNING -> "WARNING"
      [] OTHER -> "Level"

(* The arguments of logging.basicConfig, lines 10-13.                      *)
CONFIG_LEVEL_Warning == WARNING
CONFIG_LEVEL == INFO

LOG_FORMAT_Colon ==
    <<"%levelname", ":", "%name", ":", "%asctime", ":", "%message">>
LOG_FORMAT ==
    <<"%asctime", " - ", "%name", " - ", "%levelname", " - ", "%message">>

(* The messages of main(), lines 19 and 21.                                *)
START_MSG == "Starting PDQ Scraper..."
DONE_MSG == "PDQ Scraper completed successfully"

(* The names the module can be loaded under.                               *)
MAIN_NAME == "__main__"
ImportNames == {"main", "pdq.main"}

----------------------------------------------------------------------------
(* What an importer may have done to the root logger before the import.    *)

BASIC_FORMAT == <<"%levelname", ":", "%name", ":", "%message">>
BARE_FORMAT == <<"%message">>

PreHandlerKinds ==
    { [fmt |-> BASIC_FORMAT, level |-> NOTSET, by |-> "importer"],
      [fmt |-> BARE_FORMAT, level |-> NOTSET, by |-> "importer"],
      [fmt |-> BASIC_FORMAT, level |-> WARNING, by |-> "importer"] }

PreLevels == {DEBUG, INFO, WARNING}

SeqsUpTo(S, n) == UNION { [1..k -> S] : k \in 0..n }

DefaultRoot == [level |-> WARNING, handlers |-> <<>>]

PreRoots ==
    { [level |-> l, handlers |-> hs] :
        l \in PreLevels, hs \in SeqsUpTo(PreHandlerKinds, MaxPre) }

----------------------------------------------------------------------------
(* The logging package, as far as the program uses it.                     *)

(* basicConfig does nothing when the root logger has a handler; otherwise  *)
(* it installs one stream handler with the format and sets the level.      *)
basicConfig_Always(r, lvl, fmt) ==
    [level |-> lvl,
     handlers |-> Append(r.handlers,
                         [fmt |-> fmt, level |-> NOTSET, by |-> "module"])]
basicConfig(r, lvl, fmt) ==
    IF Len(r.handlers) > 0
    THEN r
    ELSE [level |-> lvl,
          handlers |-> <<[fmt |-> fmt, level |-> NOTSET, by |-> "module"]>>]

(* getLogger(__name__): the logger carries the name it was asked for.      *)
getLogger_Root(n) == "root"
getLogger(n) == n

(* The module's logger has no level of its own: the root's level decides.  *)
isEnabledFor(r, lvl) == lvl >= r.level

(* One field of a format: a %-reference is replaced, the rest is literal.  *)
Field(tok, rec) ==
    CASE tok = "%asctime" -> ToString(rec.created)
      [] tok = "%name" -> rec.name
      [] tok = "%levelname" -> LevelName(rec.levelno)
      [] tok = "%message" -> rec.msg
      [] OTHER -> tok

Render(fmt, rec) == [i \in 1..Len(fmt) |-> Field(fmt[i], rec)]

(* The lines the handlers of the root logger write for record number n.    *)
callHandlers(r, rec, n) ==
    LET all == [i \in 1..Len(r.handlers) |->
                   [handler |-> i, rec |-> n,
                    text |-> Render(r.handlers[i].fmt, rec)]]
    IN SelectSeq(all, LAMBDA l : rec.levelno >= r.handlers[l.handler].level)

(* logger.info(msg), lines 19 and 21.                                      *)
info_AddsHandler(msg) ==
    LET rec == [name |-> logger, levelno |-> INFO, msg |-> msg,
                created |-> clock]
        r2 == basicConfig_Always(root, root.level, LOG_FORMAT)
    IN /\ infoCalls' = infoCalls + 1
       /\ clock' = clock + 1
       /\ root' = r2
       /\ IF isEnabledFor(r2, INFO)
          THEN /\ records' = Append(records, rec)
               /\ sink' = sink \o callHandlers(r2, rec, Len(records) + 1)
          ELSE UNCHANGED <<records, sink>>
info(msg) ==
    LET rec == [name |-> logger, levelno |-> INFO, msg |-> msg,
                created |-> clock]
    IN /\ infoCalls' = infoCalls + 1
       /\ clock' = clock + 1
       /\ root' = root
       /\ IF isEnabledFor(root, INFO)
          THEN /\ records' = Append(records, rec)
               /\ sink' = sink \o callHandlers(root, rec, Len(records) + 1)
          ELSE UNCHANGED <<records, sink>>

----------------------------------------------------------------------------
(* The program.                                                            *)

(* The statements of the module body in the order of the file.            *)
TopLevel_GuardFirst == <<"getLogger", "def", "guard", "config">>
TopLevel == <<"config", "getLogger", "def", "guard">>

AtStmt(s) == phase = "loading" /\ mpc = "idle" /\ pc \in 1..Len(TopLevel)
             /\ TopLevel[pc] = s

(* Line 24: the guard.                                                     *)
GuardFires_Always(n) == TRUE
GuardFires(n) == n = MAIN_NAME

(* Line 20 is a comment: nothing is executed and nothing is raised.        *)
TodoRaises_NotImplemented == TRUE
TodoRaises == FALSE

(* The statements of main() in order; "ret" is the return.                 *)
MainNext_EarlyReturn(p) ==
    CASE p = "l19" -> "l20"
      [] p = "l20" -> "ret"
      [] OTHER -> "ret"
MainNext(p) ==
    CASE p = "l19" -> "l20"
      [] p = "l20" -> "l21"
      [] OTHER -> "ret"

Init ==
    /\ \/ name = MAIN_NAME /\ root = DefaultRoot
       \/ name \in ImportNames /\ root \in PreRoots \cup {DefaultRoot}
    /\ pre = root
    /\ phase = "loading"
    /\ pc = 1
    /\ logger = ""
    /\ mainDefined = FALSE
    /\ mpc = "idle"
    /\ caller = "none"
    /\ mark = 0
    /\ records = <<>>
    /\ sink = <<>>
    /\ clock = 0
    /\ calls = 0
    /\ guardCalls = 0
    /\ infoCalls = 0
    /\ configCalls = 0
    /\ loads = 0
    /\ raised = FALSE
    /\ exitStatus = -1

(* Lines 10-13.                                                            *)
Config ==
    /\ AtStmt("config")
    /\ root' = basicConfig(root, CONFIG_LEVEL, LOG_FORMAT)
    /\ configCalls' = configCalls + 1
    /\ pc' = pc + 1
    /\ UNCHANGED <<name, pre, phase, logger, mainDefined, mpc, caller, mark,
                   records, sink, clock, calls, guardCalls, infoCalls, loads,
                   raised, exitStatus>>

(* Line 14.                                                                *)
GetLogger ==
    /\ AtStmt("getLogger")
    /\ logger' = getLogger(name)
    /\ pc' = pc + 1
    /\ UNCHANGED <<name, pre, phase, root, mainDefined, mpc, caller, mark,
                   records, sink, clock, calls, guardCalls, infoCalls,
                   configCalls, loads, raised, exitStatus>>

(* Line 17.                                                                *)
DefMain ==
    /\ AtStmt("def")
    /\ mainDefined' = TRUE
    /\ pc' = pc + 1
    /\ UNCHANGED <<name, pre, phase, root, logger, mpc, caller, mark,
                   records, sink, clock, calls, guardCalls, infoCalls,
                   configCalls, loads, raised, exitStatus>>

(* Lines 24-25: the guard calls main() or falls through.                   *)
Guard ==
    /\ AtStmt("guard")
    /\ IF GuardFires(name)
       THEN /\ mainDefined
            /\ mpc' = "l19"
            /\ caller' = "guard"
            /\ mark' = Len(records)
            /\ calls' = calls + 1
            /\ guardCalls' = guardCalls + 1
            /\ pc' = pc
       ELSE /\ pc' = pc + 1
            /\ UNCHANGED <<mpc, caller, mark, calls, guardCalls>>
    /\ UNCHANGED <<name, pre, phase, root, logger, mainDefined, records,
                   sink, clock, infoCalls, configCalls, loads, raised,
                   exitStatus>>

(* The end of the module body: a direct run exits, an import returns.      *)
ModuleEnd ==
    /\ phase = "loading"
    /\ mpc = "idle"
    /\ pc = Len(TopLevel) + 1
    /\ IF name = MAIN_NAME
       THEN /\ phase' = "exited"
            /\ exitStatus' = IF raised THEN 1 ELSE 0
       ELSE /\ phase' = "loaded"
            /\ exitStatus' = exitStatus
    /\ UNCHANGED <<name, pre, pc, root, logger, mainDefined, mpc, caller,
                   mark, records, sink, clock, calls, guardCalls, infoCalls,
                   configCalls, loads, raised>>

(* The importer calls main().                                              *)
CallMain ==
    /\ phase = "loaded"
    /\ mpc = "idle"
    /\ mainDefined
    /\ ~raised
    /\ calls < MaxCalls
    /\ mpc' = "l19"
    /\ caller' = "importer"
    /\ mark' = Len(records)
    /\ calls' = calls + 1
    /\ UNCHANGED <<name, pre, phase, pc, root, logger, mainDefined, records,
                   sink, clock, guardCalls, infoCalls, configCalls, loads,
                   raised, exitStatus>>

(* The importer reloads the module: the body runs again.                   *)
Reload ==
    /\ phase = "loaded"
    /\ mpc = "idle"
    /\ ~raised
    /\ loads < MaxReloads
    /\ loads' = loads + 1
    /\ phase' = "loading"
    /\ pc' = 1
    /\ UNCHANGED <<name, pre, root, logger, mainDefined, mpc, caller, mark,
                   records, sink, clock, calls, guardCalls, infoCalls,
                   configCalls, raised, exitStatus>>

(* Line 19.                                                                *)
MainStart ==
    /\ mpc = "l19"
    /\ info(START_MSG)
    /\ mpc' = MainNext(mpc)
    /\ UNCHANGED <<name, pre, phase, pc, logger, mainDefined, caller, mark,
                   calls, guardCalls, configCalls, loads, raised, exitStatus>>

(* Line 20.                                                                *)
MainTodo ==
    /\ mpc = "l20"
    /\ raised' = TodoRaises
    /\ mpc' = IF TodoRaises THEN "ret" ELSE MainNext(mpc)
    /\ UNCHANGED <<name, pre, phase, pc, root, logger, mainDefined, caller,
                   mark, records, sink, clock, calls, guardCalls, infoCalls,
                   configCalls, loads, exitStatus>>

(* Line 21.                                                                *)
MainCompleted ==
    /\ mpc = "l21"
    /\ info(DONE_MSG)
    /\ mpc' = MainNext(mpc)
    /\ UNCHANGED <<name, pre, phase, pc, logger, mainDefined, caller, mark,
                   calls, guardCalls, configCalls, loads, raised, exitStatus>>

(* The return of main(): control goes back to the caller.  An exception    *)
(* that leaves main() ends the module body.                                *)
MainReturn ==
    /\ mpc = "ret"
    /\ mpc' = "idle"
    /\ pc' = IF caller = "guard"
             THEN (IF raised THEN Len(TopLevel) + 1 ELSE pc + 1)
             ELSE pc
    /\ UNCHANGED <<name, pre, phase, root, logger, mainDefined, caller, mark,
                   records, sink, clock, calls, guardCalls, infoCalls,
                   configCalls, loads, raised, exitStatus>>

MainStep == MainStart \/ MainTodo \/ MainCompleted \/ MainReturn

ModuleStep == Config \/ GetLogger \/ DefMain \/ Guard \/ ModuleEnd

Next ==
    \/ Config
    \/ GetLogger
    \/ DefMain
    \/ Guard
    \/ ModuleEnd
    \/ CallMain
    \/ Reload
    \/ MainStart
    \/ MainTodo
    \/ MainCompleted
    \/ MainReturn

Spec == Init /\ [][Next]_vars

(* The interpreter is synchronous and single-threaded: a statement that    *)
(* can run does run.  What the importer does is not forced.                *)
FairSpec == Spec /\ WF_vars(MainStep) /\ WF_vars(ModuleStep)

TypeOK ==
    /\ name \in {MAIN_NAME} \cup ImportNames
    /\ phase \in {"loading", "loaded", "exited"}
    /\ pc \in 1..(Len(TopLevel) + 1)
    /\ mpc \in {"idle", "l19", "l20", "l21", "ret"}
    /\ caller \in {"none", "guard", "importer"}
    /\ exitStatus \in {-1, 0, 1}

----------------------------------------------------------------------------
(* Notions used by the properties.                                         *)

Direct == name = MAIN_NAME

IsPrefix(s, t) == Len(s) <= Len(t) /\ \A i \in 1..Len(s) : s[i] = t[i]

(* A record without its time stamp.                                        *)
Strip(rec) == [name |-> rec.name, levelno |-> rec.levelno, msg |-> rec.msg]

(* What one call of main() emits when INFO is admitted.                    *)
SingleCall ==
    << [name |-> name, levelno |-> INFO, msg |-> START_MSG],
       [name |-> name, levelno |-> INFO, msg |-> DONE_MSG] >>

(* The handlers of the root logger that let an INFO record through.        *)
Admitting(r) == {h \in 1..Len(r.handlers) : INFO >= r.handlers[h].level}

LinesOf(n, h) == {i \in 1..Len(sink) : sink[i].rec = n /\ sink[i].handler = h}

ModuleHandler == [fmt |-> LOG_FORMAT, level |-> NOTSET, by |-> "module"]

(* A line in the format of lines 10-13: four fields joined by " - ".       *)
FourFields(l) ==
    LET rec == records[l.rec]
    IN l.text = << ToString(rec.created), " - ", rec.name, " - ",
                   LevelName(rec.levelno), " - ", rec.msg >>

----------------------------------------------------------------------------
(* C1: a direct run emits exactly two records, first "Starting PDQ         *)
(* Scraper...", then "PDQ Scraper completed successfully", both INFO; the  *)
(* completion record never comes before the start record, and the sink     *)
(* holds one line for each.                                                *)
C1_DirectRunTwoRecords ==
    Direct =>
        /\ Len(records) <= 2
        /\ Len(sink) = Len(records)
        /\ \A i \in 1..Len(records) :
              /\ records[i].levelno = INFO
              /\ records[i].msg = (IF i = 1 THEN START_MSG ELSE DONE_MSG)
              /\ sink[i].rec = i
              /\ \E j \in 1..Len(sink[i].text) :
                    sink[i].text[j] = records[i].msg
              /\ \E j \in 1..Len(sink[i].text) : sink[i].text[j] = "INFO"
        /\ (phase = "exited" => Len(records) = 2)

C1_Witness ==
    /\ Direct
    /\ phase = "exited"
    /\ Len(sink) = 2
    /\ records[1].msg = START_MSG
    /\ records[2].msg = DONE_MSG

(* C2: an import emits no record: the guard never calls main() when the    *)
(* name is not "__main__", no statement of the module body writes to the   *)
(* sink, and basicConfig has still been executed when the import returns.  *)
C2_ImportEmitsNothing ==
    /\ [](~Direct =>
            /\ guardCalls = 0
            /\ (phase = "loaded" => configCalls >= 1)
            /\ (calls = 0 => records = <<>> /\ sink = <<>>))
    /\ [][(~Direct /\ phase = "loading") =>
             (records' = records /\ sink' = sink /\ infoCalls' = infoCalls)]_vars

C2_Witness ==
    /\ ~Direct
    /\ phase = "loaded"
    /\ configCalls >= 1
    /\ calls = 0
    /\ isEnabledFor(root, INFO)
    /\ sink = <<>>

(* C3: a direct run always ends, and ends with exit status 0: no           *)
(* exception is ever raised and no other exit status is ever set.          *)
C3_ExitStatusZero ==
    /\ [](~raised /\ exitStatus \in {-1, 0})
    /\ [](phase = "exited" <=> exitStatus = 0)
    /\ (Direct ~> (phase = "exited" /\ exitStatus = 0))

C3_Witness ==
    /\ Direct
    /\ phase = "exited"
    /\ exitStatus = 0
    /\ infoCalls = 2

(* C4 as stated: after n calls of main() there are exactly 2n records,     *)
(* alternating start and completed.                                        *)
C4_Original ==
    mpc = "idle" =>
        /\ Len(records) = 2 * calls
        /\ \A i \in 1..Len(records) :
              Strip(records[i]) = SingleCall[((i - 1) % 2) + 1]

(* C4, amended: after n calls of main() the records are the records of     *)
(* one call repeated n times, which are start and completed when the       *)
(* root level admits INFO and nothing when it does not; the lines of the   *)
(* sink are one per record and admitting handler, so nothing accumulates.  *)
C4_CallsConcatenate ==
    mpc = "idle" =>
        /\ Len(records) = (IF isEnabledFor(root, INFO) THEN 2 * calls ELSE 0)
        /\ \A i \in 1..Len(records) :
              Strip(records[i]) = SingleCall[((i - 1) % 2) + 1]
        /\ Len(sink) = Len(records) * Cardinality(Admitting(root))
        /\ \A i \in 1..Len(records) : \A h \in Admitting(root) :
              Cardinality(LinesOf(i, h)) = 1

C4_Witness ==
    /\ mpc = "idle"
    /\ calls = 2
    /\ Len(records) = 4
    /\ Strip(records[3]) = Strip(records[1])
    /\ Strip(records[4]) = Strip(records[2])

(* C5 as stated: every line written for main() has the four fields time,   *)
(* logger name, level, message joined by " - ".                            *)
C5_Original == \A i \in 1..Len(sink) : FourFields(sink[i])

(* C5, amended: every line written by the handler that the module's        *)
(* basicConfig installed has the four fields time, logger name, level,     *)
(* message joined by " - "; in a direct run these are all the lines.       *)
C5_ModuleHandlerFormat ==
    /\ \A i \in 1..Len(sink) :
          root.handlers[sink[i].handler].by = "module" => FourFields(sink[i])
    /\ Direct => \A i \in 1..Len(sink) : FourFields(sink[i])

C5_Witness ==
    /\ Len(sink) >= 2
    /\ root.handlers[sink[1].handler].by = "module"
    /\ sink[1].text[7] = START_MSG
    /\ sink[2].text[7] = DONE_MSG
    /\ sink[2].text[2] = " - "

C7_Original == mpc = "ret" => Len(records) - mark = 2

(* C7, amended: main() has one path, line 19, line 20, line 21, return,    *)
(* and every call returns; it has then made exactly two logger.info calls, *)
(* which emitted two records when the root level admits INFO and none      *)
(* otherwise.                                                              *)
C7_OnePathTerminates ==
    /\ [][mpc' # mpc =>
             \/ mpc = "idle" /\ mpc' = "l19"
             \/ mpc = "l19" /\ mpc' = "l20"
             \/ mpc = "l20" /\ mpc' = "l21"
             \/ mpc = "l21" /\ mpc' = "ret"
             \/ mpc = "ret" /\ mpc' = "idle"]_vars
    /\ [](mpc = "ret" =>
             /\ infoCalls = 2 * calls
             /\ Len(records) - mark =
                   (IF isEnabledFor(root, INFO) THEN 2 ELSE 0))
    /\ ((mpc # "idle") ~> (mpc = "idle"))

C7_Witness ==
    /\ mpc = "ret"
    /\ Len(records) - mark = 2
    /\ records[mark + 1].msg = START_MSG
    /\ records[mark + 2].msg = DONE_MSG

(* C8: basicConfig has completed before main() runs and before any record  *)
(* is emitted, in a direct run and in an import alike; the root logger     *)
(* has a handler whenever main() runs.                                     *)
C8_ConfigBeforeFirstRecord ==
    (mpc # "idle" \/ infoCalls > 0 \/ Len(records) > 0 \/ Len(sink) > 0) =>
        /\ configCalls >= 1
        /\ Len(root.handlers) >= 1

C8_Witness ==
    /\ ~Direct
    /\ caller = "importer"
    /\ Len(pre.handlers) = 0
    /\ Len(sink) >= 1
    /\ configCalls >= 1

(* C9 as stated: each logger.info call puts exactly one line per           *)
(* installed handler into the sink.                                        *)
C9_Original == Len(sink) = infoCalls * Len(root.handlers)

(* C9, amended: the module installs at most one handler however often      *)
(* basicConfig runs, and none when the root logger had a handler before    *)
(* the load, in which case level and handlers stay as they were; each      *)
(* logger.info call puts at most one line per installed handler into the   *)
(* sink: one for each handler whose level admits INFO when the root level  *)
(* admits INFO, and none otherwise.                                        *)
C9_AtMostOneHandler ==
    /\ Cardinality({h \in 1..Len(root.handlers) :
                       root.handlers[h].by = "module"}) <= 1
    /\ (Len(pre.handlers) > 0 => root = pre)
    /\ (Len(pre.handlers) = 0 => Len(root.handlers) <= 1)
    /\ Len(records) = (IF isEnabledFor(root, INFO) THEN infoCalls ELSE 0)
    /\ \A n \in 1..Len(records) : \A h \in 1..Len(root.handlers) :
          Cardinality(LinesOf(n, h)) = (IF h \in Admitting(root) THEN 1 ELSE 0)
    /\ Len(sink) = Len(records) * Cardinality(Admitting(root))

C9_Witness ==
    /\ loads >= 1
    /\ configCalls >= 2
    /\ Len(pre.handlers) = 0
    /\ Len(root.handlers) = 1
    /\ infoCalls >= 2
    /\ Len(sink) = infoCalls

(* C10: the logger name of every record is the module's name at load:      *)
(* "__main__" in a direct run, the import name otherwise; it never         *)
(* changes, so the start and the completion record of a call carry the     *)
(* same name, and it is the name field of the lines the module's handler   *)
(* writes.                                                                 *)
C10_LoggerName ==
    /\ [](/\ (logger # "" => logger = name)
          /\ \A i \in 1..Len(records) :
                /\ records[i].name = name
                /\ (Direct => records[i].name = "__main__")
                /\ (~Direct => records[i].name \in ImportNames)
          /\ \A i \in 1..Len(sink) :
                root.handlers[sink[i].handler].by = "module" =>
                    sink[i].text[3] = name)
    /\ [][name' = name /\ (logger # "" => logger' = logger)]_vars

C10_Witness ==
    /\ ~Direct
    /\ mpc = "ret"
    /\ Len(records) >= 2
    /\ records[mark + 1].name = name
    /\ records[mark + 2].name = records[mark + 1].name
    /\ name \in ImportNames
====
